---- MODULE Spec2Model ----
(***************************************************************************)
(* Simple moving averages over a sliding window: the Single-Sum, No-Sum    *)
(* and Sum-Tree strategies of the moving_average crate, run side by side   *)
(* on one stream of unsigned integer samples.                              *)
(*                                                                         *)
(* The sample type is an unsigned integer of SampleBits bits (u32 in the   *)
(* crate's tests, narrowed here).  An overflowing + or - panics in a build *)
(* with overflow checks and wraps in a build without them; both builds are *)
(* modelled (overflow_checks).                                             *)
(*                                                                         *)
(* std::collections::VecDeque is modelled with its ring layout (buf, head, *)
(* len), because get_samples() rearranges that layout (make_contiguous)    *)
(* and reads a physical slice of it (as_slices().0).  with_capacity(n)     *)
(* allocates exactly n slots.                                              *)
(*                                                                         *)
(* sum_tree.rs is not part of the sources at hand: the SumTree is modelled *)
(* from the design text (heap layout padded to a power of two).            *)
(*                                                                         *)
(* ring_buffer.rs (RingBuffer, which the strategies do not use) is         *)
(* modelled as a second system, RingSpec, over its own variables.  usize   *)
(* is narrowed to UsizeBits bits; in the dev profile (overflow_checks)     *)
(* debug_assert! is compiled in as well.                                   *)
(***************************************************************************)
EXTENDS Integers, Sequences, FiniteSets, TLC

\* ------------------------------------------------------------------ bounds

\* Largest WINDOW_SIZE explored.
MaxWindow == 3

\* Largest number of add_sample calls in one run.
MaxAdds == 5

\* Width of the unsigned sample type.
SampleBits == 5

\* The sample values fed to add_sample.
Samples == {0, 1, 3, 4, 10}

Modulus == 2 ^ SampleBits

\* Largest CAPACITY of a RingBuffer explored.
MaxCapacity == 3

\* Width of usize in the index arithmetic of the RingBuffer.
UsizeBits == 4

\* The items pushed into a RingBuffer.
RingItems == {1, 2, 3}

UsizeModulus == 2 ^ UsizeBits

VARIABLES
    WINDOW_SIZE,      \* const generic WINDOW_SIZE of the three instances
    overflow_checks,  \* build profile: TRUE = + and - panic on overflow
    divisor_max,      \* largest count the Divisor type represents
    ss_samples,       \* SingleSumMovingAverage.samples : VecDeque<Sample>
    ss_sum,           \* SingleSumMovingAverage.sum
    ss_panicked,      \* a SingleSum add_sample call panicked
    ns_samples,       \* NoSumMovingAverage.samples : VecDeque<Sample>
    ns_zero,          \* NoSumMovingAverage.zero
    st_samples,       \* SumTreeMovingAverage.samples : VecDeque<SumTreeNodeIdx>
    st_sum_tree,      \* SumTreeMovingAverage.sum_tree : SumTree<Sample>
    st_panicked,      \* a SumTree add_sample call panicked
    average_panicked, \* the instances whose get_average_sample call panicked
    recent,           \* history: the last MaxWindow samples added, newest first
    num_added,        \* history: the number of add_sample calls made
    CAPACITY,         \* const generic CAPACITY of the RingBuffer
    rb_items,         \* RingBuffer.items : [Item; CAPACITY]
    rb_front_idx,     \* RingBuffer.front_idx
    rb_num_items,     \* RingBuffer.num_items
    rb_fault,         \* the panic that ended the last RingBuffer call, if any
    rb_ret,           \* the last RingBuffer call and what it returned
    fifo              \* history: the items a bounded FIFO would hold, oldest first

ma_vars ==
    << WINDOW_SIZE, overflow_checks, divisor_max, ss_samples, ss_sum,
       ss_panicked, ns_samples, ns_zero, st_samples, st_sum_tree,
       st_panicked, average_panicked, recent, num_added >>

rb_vars ==
    << CAPACITY, rb_items, rb_front_idx, rb_num_items, rb_fault, rb_ret, fifo >>

vars == << ma_vars, rb_vars >>

\* ------------------------------------------------------------ value types

\* Option<T>: None is the empty sequence, Some(x) the one-element sequence.
None == << >>

Some(x) == << x >>

\* The outcome of a call that either returns a value or panics.
Ok(x) == [panic |-> FALSE, val |-> x]

Panicked == [panic |-> TRUE, val |-> 0]

\* Sample::zero() of an unsigned integer type.
Zero == 0

\* A slot of a VecDeque buffer that holds no value (MaybeUninit).
Uninit == 0 - 1

Min(a, b) == IF a <= b THEN a ELSE b

\* ------------------------------------------------- unsigned arithmetic

\* lhs + rhs in the sample type: the wrapped result and whether it overflowed.
AddOverflows(lhs, rhs) == lhs + rhs >= Modulus

WrappingAdd(lhs, rhs) == (lhs + rhs) % Modulus

SubOverflows(lhs, rhs) == lhs < rhs

WrappingSub(lhs, rhs) == (lhs - rhs) % Modulus

\* Mutant of from_usize: the count is cast as `n as Divisor` would, wrapping
\* into the range of the Divisor type.
from_usize_wrapping(n) == Some(n % (divisor_max + 1))

\* Divisor::from_usize(n): None when the Divisor type cannot hold n.
from_usize(n) == IF n <= divisor_max THEN Some(n) ELSE None

\* ------------------------------------------------------------- VecDeque
\* A VecDeque is [buf, cap, head, len]: buf maps the physical slots
\* 0 .. cap-1 to their contents, head is the physical index of the front
\* element and len the number of elements.  Element i (0 = front) lives in
\* slot (head + i) % cap.

\* The ring of `cap` slots that holds the elements of seq, front first, from
\* physical slot `head` on (wrapping); every other slot holds no value.
Place(cap, head, seq) ==
    [buf |-> [p \in 0 .. cap - 1 |->
                 LET i == (p - head) % cap
                 IN  IF i < Len(seq) THEN seq[i + 1] ELSE Uninit],
     cap |-> cap, head |-> head, len |-> Len(seq)]

\* VecDeque::with_capacity(capacity).
VecDeque_with_capacity(capacity) == Place(capacity, 0, << >>)

\* VecDeque::to_physical_idx.
to_physical_idx(dq, idx) == (dq.head + idx) % dq.cap

\* The elements front to back, as VecDeque::iter() yields them.
VecDeque_iter(dq) ==
    [i \in 1 .. dq.len |-> dq.buf[to_physical_idx(dq, i - 1)]]

VecDeque_len(dq) == dq.len

\* VecDeque::is_contiguous.
is_contiguous(dq) == dq.head <= dq.cap - dq.len

\* VecDeque::grow, called by a push on a full ring: the buffer doubles and
\* a wrapped ring is unwrapped as handle_capacity_increase does.
VecDeque_grow(dq) ==
    LET new_cap  == IF dq.cap = 0 THEN 4 ELSE 2 * dq.cap
        head_len == dq.cap - dq.head
        tail_len == dq.len - head_len
    IN  IF is_contiguous(dq) \/ (head_len > tail_len /\ new_cap - dq.cap >= tail_len)
        THEN Place(new_cap, dq.head, VecDeque_iter(dq))
        ELSE Place(new_cap, new_cap - head_len, VecDeque_iter(dq))

\* VecDeque::push_front(value).
VecDeque_push_front(dq, value) ==
    LET d    == IF dq.len = dq.cap THEN VecDeque_grow(dq) ELSE dq
        head == (d.head - 1 + d.cap) % d.cap
    IN  [d EXCEPT !.head = head, !.len = d.len + 1, !.buf[head] = value]

\* VecDeque::pop_back(): the ring after the call and the Option returned.
VecDeque_pop_back(dq) ==
    IF dq.len = 0
    THEN [dq |-> dq, item |-> None]
    ELSE LET p == to_physical_idx(dq, dq.len - 1)
         IN  [dq   |-> [dq EXCEPT !.len = dq.len - 1, !.buf[p] = Uninit],
              item |-> Some(dq.buf[p])]

\* VecDeque::front().
VecDeque_front(dq) == IF dq.len = 0 THEN None ELSE Some(dq.buf[dq.head])

\* VecDeque::make_contiguous(): the ring after the call.
make_contiguous(dq) ==
    LET free     == dq.cap - dq.len
        head_len == dq.cap - dq.head
        tail_len == dq.len - head_len
        new_head == IF free >= head_len THEN 0
                    ELSE IF free >= tail_len THEN tail_len
                    ELSE IF head_len > tail_len THEN free
                    ELSE 0
    IN  IF is_contiguous(dq) THEN dq
        ELSE Place(dq.cap, new_head, VecDeque_iter(dq))

\* VecDeque::as_slices().0: the physical slots from head up to the end of
\* the elements or the end of the buffer, whichever comes first.
as_slices_0(dq) ==
    LET head_len == dq.cap - dq.head
        n        == IF dq.len = 0 THEN 0 ELSE Min(head_len, dq.len)
    IN  [i \in 1 .. n |-> dq.buf[dq.head + i - 1]]

\* -------------------------------------------------------------- SumTree
\* The sum tree as the crate's design describes it: `capacity` leaf slots,
\* padded with zero leaves to a power of two, in the heap layout (root 1,
\* children of n are 2n and 2n+1, leaf slot i is node offset + i).
\* A SumTree is [nodes, capacity, offset].

ROOT_NODE_IDX == 1

RECURSIVE next_power_of_two_from(_, _)
next_power_of_two_from(n, p) ==
    IF p >= n THEN p ELSE next_power_of_two_from(n, 2 * p)

next_power_of_two(n) == next_power_of_two_from(n, 1)

\* SumTree::new(zero, capacity): every leaf is zero, every internal node the
\* sum of its children.
RECURSIVE subtree_sum_of_zeros(_, _, _)
subtree_sum_of_zeros(zero, node, offset) ==
    IF node >= offset THEN zero
    ELSE WrappingAdd(subtree_sum_of_zeros(zero, 2 * node, offset),
                     subtree_sum_of_zeros(zero, 2 * node + 1, offset))

SumTree_new(zero, capacity) ==
    LET offset == next_power_of_two(capacity)
    IN  [nodes    |-> [n \in 1 .. 2 * offset - 1 |->
                          subtree_sum_of_zeros(zero, n, offset)],
         capacity |-> capacity,
         offset   |-> offset]

\* Recomputes every ancestor of `child` as the sum of its two children.
\* r is [nodes, overflow]: overflow records that one of the sums overflowed.
RECURSIVE update_parent_recursive(_, _)
update_parent_recursive(r, child) ==
    IF child = ROOT_NODE_IDX THEN r
    ELSE LET parent == child \div 2
             left   == r.nodes[2 * parent]
             right  == r.nodes[2 * parent + 1]
         IN  update_parent_recursive(
                 [nodes    |-> [r.nodes EXCEPT ![parent] = WrappingAdd(left, right)],
                  overflow |-> r.overflow \/ AddOverflows(left, right)],
                 parent)

\* SumTree::update_leaf_node_sample(leaf_node_idx, new_sample): the tree
\* after the call, whether the index was out of range, and whether a sum
\* overflowed.
update_leaf_node_sample(tree, leaf_node_idx, new_sample) ==
    IF leaf_node_idx >= tree.capacity
    THEN [tree |-> tree, out_of_range |-> TRUE, overflow |-> FALSE]
    ELSE LET node == tree.offset + leaf_node_idx
             r    == update_parent_recursive(
                         [nodes    |-> [tree.nodes EXCEPT ![node] = new_sample],
                          overflow |-> FALSE],
                         node)
         IN  [tree         |-> [tree EXCEPT !.nodes = r.nodes],
              out_of_range |-> FALSE,
              overflow     |-> r.overflow]

\* SumTree::get_root_sum().
get_root_sum(tree) == tree.nodes[ROOT_NODE_IDX]

\* SumTree::get_leaf_node_sum(leaf_node_idx); out of range is a panic.
get_leaf_node_sum(tree, leaf_node_idx) ==
    IF leaf_node_idx >= tree.capacity THEN Panicked
    ELSE Ok(tree.nodes[tree.offset + leaf_node_idx])

\* SumTree::get_leaf_nodes_slice(): all leaf slots in slot-index order.
get_leaf_nodes_slice(tree) ==
    [i \in 1 .. tree.capacity |-> tree.nodes[tree.offset + i - 1]]

\* ------------------------------------------------ SingleSumMovingAverage

\* SingleSumMovingAverage::new().
SingleSum_new == [samples |-> VecDeque_with_capacity(WINDOW_SIZE), sum |-> Zero]

\* Mutant of add_sample: the sample dropped from a full window stays in the
\* running total.
SingleSum_add_sample_no_subtract(samples, sum, new_sample) ==
    IF WINDOW_SIZE = 0
    THEN [samples |-> samples, sum |-> sum, panic |-> FALSE]
    ELSE IF overflow_checks /\ AddOverflows(sum, new_sample)
    THEN [samples |-> samples, sum |-> sum, panic |-> TRUE]
    ELSE LET dq == IF VecDeque_len(samples) = WINDOW_SIZE
                   THEN VecDeque_pop_back(samples).dq
                   ELSE samples
         IN  [samples |-> VecDeque_push_front(dq, new_sample),
              sum |-> WrappingAdd(sum, new_sample), panic |-> FALSE]

\* Mutant of add_sample: a full window evicts its oldest sample but takes
\* the newest one it held out of the running total.
SingleSum_add_sample_subtract_front(samples, sum, new_sample) ==
    IF WINDOW_SIZE = 0
    THEN [samples |-> samples, sum |-> sum, panic |-> FALSE]
    ELSE IF overflow_checks /\ AddOverflows(sum, new_sample)
    THEN [samples |-> samples, sum |-> sum, panic |-> TRUE]
    ELSE LET added  == WrappingAdd(sum, new_sample)
             full   == VecDeque_len(samples) = WINDOW_SIZE
             popped == VecDeque_pop_back(samples)
             front  == VecDeque_front(samples)
             newest == IF front = None THEN added ELSE front[1]
         IN  IF ~full
             THEN [samples |-> VecDeque_push_front(samples, new_sample),
                   sum |-> added, panic |-> FALSE]
             ELSE IF overflow_checks /\ SubOverflows(added, newest)
             THEN [samples |-> popped.dq, sum |-> added, panic |-> TRUE]
             ELSE [samples |-> VecDeque_push_front(popped.dq, new_sample),
                   sum |-> WrappingSub(added, newest), panic |-> FALSE]

\* SingleSumMovingAverage::add_sample(new_sample): the fields after the call
\* and whether it panicked (the fields are then as the panic left them).
SingleSum_add_sample(samples, sum, new_sample) ==
    IF WINDOW_SIZE = 0
    THEN [samples |-> samples, sum |-> sum, panic |-> FALSE]
    ELSE IF overflow_checks /\ AddOverflows(sum, new_sample)
    THEN [samples |-> samples, sum |-> sum, panic |-> TRUE]
    ELSE LET added  == WrappingAdd(sum, new_sample)
             full   == VecDeque_len(samples) = WINDOW_SIZE
             popped == VecDeque_pop_back(samples)
             oldest == IF popped.item = None THEN added ELSE popped.item[1]
         IN  IF ~full
             THEN [samples |-> VecDeque_push_front(samples, new_sample),
                   sum |-> added, panic |-> FALSE]
             ELSE IF overflow_checks /\ SubOverflows(added, oldest)
             THEN [samples |-> popped.dq, sum |-> added, panic |-> TRUE]
             ELSE [samples |-> VecDeque_push_front(popped.dq, new_sample),
                   sum |-> WrappingSub(added, oldest), panic |-> FALSE]

\* SingleSumMovingAverage::get_num_samples().
SingleSum_get_num_samples(samples) == VecDeque_len(samples)

\* SingleSumMovingAverage::get_average_sample().
SingleSum_get_average(samples, sum) ==
    LET num_samples == VecDeque_len(samples)
        divisor     == from_usize(num_samples)
    IN  IF num_samples = 0 THEN Ok(sum)
        ELSE IF divisor = None THEN Panicked
        ELSE IF divisor[1] = 0 THEN Panicked
        ELSE Ok(sum \div divisor[1])

\* SingleSumMovingAverage::get_most_recent_sample().
SingleSum_get_most_recent_sample(samples) == VecDeque_front(samples)

\* Mutant of get_samples: the ring is not made contiguous before the first
\* slice is taken.
SingleSum_get_samples_first_slice(samples) ==
    [samples |-> samples, slice |-> as_slices_0(samples)]

\* Mutant of get_samples: the front is moved to slot 0 without moving the
\* elements.
SingleSum_get_samples_reset_head(samples) ==
    LET dq == [samples EXCEPT !.head = 0]
    IN  [samples |-> dq, slice |-> as_slices_0(dq)]

\* SingleSumMovingAverage::get_samples(): the ring after make_contiguous and
\* the slice returned (dq is bound by a set so that it is evaluated once).
SingleSum_get_samples(samples) ==
    CHOOSE r \in {[samples |-> dq, slice |-> as_slices_0(dq)] :
                     dq \in {make_contiguous(samples)}} : TRUE

\* ---------------------------------------------------- NoSumMovingAverage

\* NoSumMovingAverage::new().
NoSum_new == [samples |-> VecDeque_with_capacity(WINDOW_SIZE), zero |-> Zero]

\* Mutant of add_sample: the oldest sample is not dropped from a full window.
NoSum_add_sample_no_evict(samples, new_sample) ==
    IF WINDOW_SIZE = 0 THEN samples
    ELSE VecDeque_push_front(samples, new_sample)

\* Mutant of add_sample: no early return for window size 0.
NoSum_add_sample_no_zero_check(samples, new_sample) ==
    LET dq == IF VecDeque_len(samples) = WINDOW_SIZE
              THEN VecDeque_pop_back(samples).dq
              ELSE samples
    IN  VecDeque_push_front(dq, new_sample)

\* NoSumMovingAverage::add_sample(new_sample): the ring after the call.
NoSum_add_sample(samples, new_sample) ==
    IF WINDOW_SIZE = 0 THEN samples
    ELSE LET dq == IF VecDeque_len(samples) = WINDOW_SIZE
                   THEN VecDeque_pop_back(samples).dq
                   ELSE samples
         IN  VecDeque_push_front(dq, new_sample)

\* The summing loop of NoSumMovingAverage::get_average(): r is
\* [sum, overflow] after the first i - 1 elements of seq.
RECURSIVE NoSum_sum_loop(_, _, _)
NoSum_sum_loop(r, seq, i) ==
    IF i > Len(seq) THEN r
    ELSE NoSum_sum_loop(
             [sum      |-> WrappingAdd(r.sum, seq[i]),
              overflow |-> r.overflow \/ AddOverflows(r.sum, seq[i])],
             seq, i + 1)

\* NoSumMovingAverage::get_average().
NoSum_get_average(samples, zero) ==
    LET num_samples == VecDeque_len(samples)
        divisor     == from_usize(num_samples)
        r           == NoSum_sum_loop([sum |-> zero, overflow |-> FALSE],
                                      VecDeque_iter(samples), 1)
    IN  IF num_samples = 0 THEN Ok(zero)
        ELSE IF divisor = None THEN Panicked
        ELSE IF overflow_checks /\ r.overflow THEN Panicked
        ELSE IF divisor[1] = 0 THEN Panicked
        ELSE Ok(r.sum \div divisor[1])

\* NoSumMovingAverage::get_most_recent_sample().
NoSum_get_most_recent_sample(samples) == VecDeque_front(samples)

\* Mutant of get_samples: the ring is not made contiguous before the first
\* slice is taken.
NoSum_get_samples_first_slice(samples) ==
    [samples |-> samples, slice |-> as_slices_0(samples)]

\* NoSumMovingAverage::get_samples().
NoSum_get_samples(samples) ==
    CHOOSE r \in {[samples |-> dq, slice |-> as_slices_0(dq)] :
                     dq \in {make_contiguous(samples)}} : TRUE

\* NoSumMovingAverage::get_num_samples().
NoSum_get_num_samples(samples) == VecDeque_len(samples)

\* -------------------------------------------------- SumTreeMovingAverage

\* SumTreeMovingAverage::new().
SumTree_MA_new ==
    [samples  |-> VecDeque_with_capacity(WINDOW_SIZE),
     sum_tree |-> SumTree_new(Zero, WINDOW_SIZE)]

\* Mutant of add_sample: after the write, the slot that would be reused next
\* is cleared to zero ahead of its eviction.
SumTree_add_sample_clear_next(samples, sum_tree, new_sample) ==
    IF WINDOW_SIZE = 0
    THEN [samples |-> samples, sum_tree |-> sum_tree, panic |-> FALSE]
    ELSE LET not_full == VecDeque_len(samples) < WINDOW_SIZE
             popped   == VecDeque_pop_back(samples)
             dq       == IF not_full THEN samples ELSE popped.dq
             tree_node_idx == IF not_full THEN VecDeque_len(samples)
                              ELSE popped.item[1]
             upd == update_leaf_node_sample(sum_tree, tree_node_idx, new_sample)
             clr == update_leaf_node_sample(upd.tree,
                                            (tree_node_idx + 1) % WINDOW_SIZE, Zero)
         IN  IF upd.out_of_range \/ (overflow_checks /\ upd.overflow)
             THEN [samples |-> dq, sum_tree |-> upd.tree, panic |-> TRUE]
             ELSE [samples  |-> VecDeque_push_front(dq, tree_node_idx),
                   sum_tree |-> clr.tree, panic |-> FALSE]

\* Mutant of add_sample: the new value is stored in the leaf and the
\* ancestors of the leaf are left as they were.
SumTree_add_sample_leaf_only(samples, sum_tree, new_sample) ==
    IF WINDOW_SIZE = 0
    THEN [samples |-> samples, sum_tree |-> sum_tree, panic |-> FALSE]
    ELSE LET not_full == VecDeque_len(samples) < WINDOW_SIZE
             popped   == VecDeque_pop_back(samples)
             dq       == IF not_full THEN samples ELSE popped.dq
             tree_node_idx == IF not_full THEN VecDeque_len(samples)
                              ELSE popped.item[1]
             leaf == sum_tree.offset + tree_node_idx
         IN  [samples  |-> VecDeque_push_front(dq, tree_node_idx),
              sum_tree |-> [sum_tree EXCEPT !.nodes[leaf] = new_sample],
              panic    |-> FALSE]

\* Mutant of add_sample: a full window reuses the slot at the front of the
\* queue, the newest sample's, while it pops the back.
SumTree_add_sample_reuse_front(samples, sum_tree, new_sample) ==
    IF WINDOW_SIZE = 0
    THEN [samples |-> samples, sum_tree |-> sum_tree, panic |-> FALSE]
    ELSE LET not_full == VecDeque_len(samples) < WINDOW_SIZE
             popped   == VecDeque_pop_back(samples)
             dq       == IF not_full THEN samples ELSE popped.dq
             tree_node_idx == IF not_full THEN VecDeque_len(samples)
                              ELSE VecDeque_front(samples)[1]
             upd == update_leaf_node_sample(sum_tree, tree_node_idx, new_sample)
         IN  IF upd.out_of_range \/ (overflow_checks /\ upd.overflow)
             THEN [samples |-> dq, sum_tree |-> upd.tree, panic |-> TRUE]
             ELSE [samples  |-> VecDeque_push_front(dq, tree_node_idx),
                   sum_tree |-> upd.tree, panic |-> FALSE]

\* Mutant of add_sample: while the window is filling the slot is the count
\* after the push, one past the next unused slot.
SumTree_add_sample_count_after_push(samples, sum_tree, new_sample) ==
    IF WINDOW_SIZE = 0
    THEN [samples |-> samples, sum_tree |-> sum_tree, panic |-> FALSE]
    ELSE LET not_full == VecDeque_len(samples) < WINDOW_SIZE
             popped   == VecDeque_pop_back(samples)
             dq       == IF not_full THEN samples ELSE popped.dq
             tree_node_idx == IF not_full THEN VecDeque_len(samples) + 1
                              ELSE popped.item[1]
             upd == update_leaf_node_sample(sum_tree, tree_node_idx, new_sample)
         IN  IF upd.out_of_range \/ (overflow_checks /\ upd.overflow)
             THEN [samples |-> dq, sum_tree |-> upd.tree, panic |-> TRUE]
             ELSE [samples  |-> VecDeque_push_front(dq, tree_node_idx),
                   sum_tree |-> upd.tree, panic |-> FALSE]

\* Mutant of add_sample: a full queue is read at its back but not popped, so
\* the slot index is pushed onto a queue that still holds it.
SumTree_add_sample_no_pop(samples, sum_tree, new_sample) ==
    IF WINDOW_SIZE = 0
    THEN [samples |-> samples, sum_tree |-> sum_tree, panic |-> FALSE]
    ELSE LET not_full == VecDeque_len(samples) < WINDOW_SIZE
             popped   == VecDeque_pop_back(samples)
             tree_node_idx == IF not_full THEN VecDeque_len(samples)
                              ELSE popped.item[1]
             upd == update_leaf_node_sample(sum_tree, tree_node_idx, new_sample)
         IN  IF upd.out_of_range \/ (overflow_checks /\ upd.overflow)
             THEN [samples |-> samples, sum_tree |-> upd.tree, panic |-> TRUE]
             ELSE [samples  |-> VecDeque_push_front(samples, tree_node_idx),
                   sum_tree |-> upd.tree, panic |-> FALSE]

\* SumTreeMovingAverage::add_sample(new_sample): the fields after the call
\* and whether it panicked.
SumTree_add_sample(samples, sum_tree, new_sample) ==
    IF WINDOW_SIZE = 0
    THEN [samples |-> samples, sum_tree |-> sum_tree, panic |-> FALSE]
    ELSE LET not_full == VecDeque_len(samples) < WINDOW_SIZE
             popped   == VecDeque_pop_back(samples)
             dq       == IF not_full THEN samples ELSE popped.dq
         IN  IF ~not_full /\ popped.item = None
             THEN [samples |-> dq, sum_tree |-> sum_tree, panic |-> TRUE]
             ELSE LET tree_node_idx == IF not_full THEN VecDeque_len(samples)
                                       ELSE popped.item[1]
                      upd == update_leaf_node_sample(sum_tree, tree_node_idx,
                                                     new_sample)
                  IN  IF upd.out_of_range \/ (overflow_checks /\ upd.overflow)
                      THEN [samples |-> dq, sum_tree |-> upd.tree, panic |-> TRUE]
                      ELSE [samples  |-> VecDeque_push_front(dq, tree_node_idx),
                            sum_tree |-> upd.tree, panic |-> FALSE]

\* Mutant of get_average: the root sum is divided by the window size, not
\* by the number of samples held.
SumTree_get_average_by_window_size(samples, sum_tree) ==
    LET num_samples == VecDeque_len(samples)
        divisor     == from_usize(WINDOW_SIZE)
    IN  IF num_samples = 0 THEN Ok(get_root_sum(sum_tree))
        ELSE IF divisor = None THEN Panicked
        ELSE IF divisor[1] = 0 THEN Panicked
        ELSE Ok(get_root_sum(sum_tree) \div divisor[1])

\* Mutant of get_average: no early return for an empty window.
SumTree_get_average_no_empty_check(samples, sum_tree) ==
    LET num_samples == VecDeque_len(samples)
        divisor     == from_usize(num_samples)
    IN  IF divisor = None THEN Panicked
        ELSE IF divisor[1] = 0 THEN Panicked
        ELSE Ok(get_root_sum(sum_tree) \div divisor[1])

\* SumTreeMovingAverage::get_average().
SumTree_get_average(samples, sum_tree) ==
    LET num_samples == VecDeque_len(samples)
        divisor     == from_usize(num_samples)
    IN  IF num_samples = 0 THEN Ok(get_root_sum(sum_tree))
        ELSE IF divisor = None THEN Panicked
        ELSE IF divisor[1] = 0 THEN Panicked
        ELSE Ok(get_root_sum(sum_tree) \div divisor[1])

\* Mutant of get_most_recent_sample: the leaf of the next slot index
\* (the sample count) is read, not the leaf at the front of the queue.
SumTree_get_most_recent_sample_by_count(samples, sum_tree) ==
    LET front == VecDeque_front(samples)
        leaf  == get_leaf_node_sum(sum_tree, VecDeque_len(samples) - 1)
    IN  IF front = None THEN [panic |-> FALSE, val |-> None]
        ELSE IF leaf.panic THEN [panic |-> TRUE, val |-> None]
        ELSE [panic |-> FALSE, val |-> Some(leaf.val)]

\* SumTreeMovingAverage::get_most_recent_sample(): an Option, or a panic of
\* get_leaf_node_sum.
SumTree_get_most_recent_sample(samples, sum_tree) ==
    LET front == VecDeque_front(samples)
        leaf  == get_leaf_node_sum(sum_tree, front[1])
    IN  IF front = None THEN [panic |-> FALSE, val |-> None]
        ELSE IF leaf.panic THEN [panic |-> TRUE, val |-> None]
        ELSE [panic |-> FALSE, val |-> Some(leaf.val)]

\* Mutant of get_samples: the leaf slice is returned back to front.
SumTree_get_samples_reversed(sum_tree) ==
    LET slice == get_leaf_nodes_slice(sum_tree)
    IN  [i \in 1 .. Len(slice) |-> slice[Len(slice) + 1 - i]]

\* SumTreeMovingAverage::get_samples().
SumTree_get_samples(sum_tree) == get_leaf_nodes_slice(sum_tree)

\* SumTreeMovingAverage::get_num_samples().
SumTree_get_num_samples(samples) == VecDeque_len(samples)

\* get_sample_window_size() of the three strategies.
get_sample_window_size == WINDOW_SIZE

\* ------------------------------------------------------------ RingBuffer
\* A RingBuffer is [items, front_idx, num_items]: items maps the indices
\* 0 .. CAPACITY-1 to their contents.  The outcome of a call is
\* [rb, ret, fault, indices, pre]: the buffer after the call, the value
\* returned, the panic that ended it (NoFault when it returned), the array
\* indices it computed and whether every wrapping_sub precondition held.

NoFault == "none"

\* wrapping_add::<MAX_VAL>(lhs, rhs).
wrapping_add(MAX_VAL, lhs, rhs) ==
    IF MAX_VAL = 0
    THEN [fault |-> "remainder with a divisor of zero", val |-> 0]
    ELSE [fault |-> NoFault, val |-> ((lhs + rhs) % UsizeModulus) % MAX_VAL]

\* Mutant of wrapping_sub: a borrow wraps at MAX_VAL - 1, one short.
wrapping_sub_off_by_one(MAX_VAL, lhs, rhs) ==
    IF lhs < rhs
    THEN [fault |-> NoFault, pre |-> rhs <= MAX_VAL,
          val |-> ((MAX_VAL - 1 - rhs) + lhs) % UsizeModulus]
    ELSE [fault |-> NoFault, pre |-> rhs <= MAX_VAL, val |-> lhs - rhs]

\* wrapping_sub::<MAX_VAL>(lhs, rhs); pre is the asserted rhs <= MAX_VAL.
wrapping_sub(MAX_VAL, lhs, rhs) ==
    IF rhs > MAX_VAL /\ overflow_checks
    THEN [fault |-> "assertion failed: rhs <= MAX_VAL", pre |-> FALSE, val |-> 0]
    ELSE IF lhs < rhs
    THEN [fault |-> NoFault, pre |-> rhs <= MAX_VAL,
          val |-> ((MAX_VAL - rhs) + lhs) % UsizeModulus]
    ELSE [fault |-> NoFault, pre |-> rhs <= MAX_VAL, val |-> lhs - rhs]

\* RingBuffer::new(zero).
RingBuffer_new(zero) ==
    [items     |-> [i \in 0 .. CAPACITY - 1 |-> zero],
     front_idx |-> 0,
     num_items |-> 0]

OutOfBounds == "index out of bounds"

\* RingBuffer::len().
RingBuffer_len(rb) == rb.num_items

\* RingBuffer::push_front(item).
RingBuffer_push_front(rb, item) ==
    LET next == wrapping_add(CAPACITY, rb.front_idx, 1)
        written == [rb EXCEPT !.items[rb.front_idx] = item]
    IN  IF rb.front_idx \notin DOMAIN rb.items
        THEN [rb |-> rb, ret |-> None, fault |-> OutOfBounds,
              indices |-> {rb.front_idx}, pre |-> TRUE]
        ELSE IF next.fault # NoFault
        THEN [rb |-> written, ret |-> None, fault |-> next.fault,
              indices |-> {rb.front_idx}, pre |-> TRUE]
        ELSE [rb |-> [written EXCEPT !.front_idx = next.val,
                                     !.num_items = Min(CAPACITY, rb.num_items + 1)],
              ret |-> None, fault |-> NoFault,
              indices |-> {rb.front_idx}, pre |-> TRUE]

\* Mutant of pop_back: the item is taken and front_idx is moved back by one
\* as well.
RingBuffer_pop_back_moves_front(rb) ==
    IF 0 < rb.num_items
    THEN LET idx  == wrapping_sub(CAPACITY, rb.front_idx, rb.num_items)
             back == wrapping_sub(CAPACITY, rb.front_idx, 1)
             less == [rb EXCEPT !.num_items = rb.num_items - 1,
                                !.front_idx = back.val]
         IN  IF idx.fault # NoFault
             THEN [rb |-> less, ret |-> None, fault |-> idx.fault,
                   indices |-> {}, pre |-> idx.pre]
             ELSE IF idx.val \notin DOMAIN rb.items
             THEN [rb |-> less, ret |-> None, fault |-> OutOfBounds,
                   indices |-> {idx.val}, pre |-> idx.pre]
             ELSE [rb |-> less, ret |-> Some(rb.items[idx.val]),
                   fault |-> NoFault, indices |-> {idx.val}, pre |-> idx.pre]
    ELSE [rb |-> rb, ret |-> None, fault |-> NoFault, indices |-> {},
          pre |-> TRUE]

\* RingBuffer::pop_back().
RingBuffer_pop_back(rb) ==
    IF 0 < rb.num_items
    THEN LET idx  == wrapping_sub(CAPACITY, rb.front_idx, rb.num_items)
             less == [rb EXCEPT !.num_items = rb.num_items - 1]
         IN  IF idx.fault # NoFault
             THEN [rb |-> less, ret |-> None, fault |-> idx.fault,
                   indices |-> {}, pre |-> idx.pre]
             ELSE IF idx.val \notin DOMAIN rb.items
             THEN [rb |-> less, ret |-> None, fault |-> OutOfBounds,
                   indices |-> {idx.val}, pre |-> idx.pre]
             ELSE [rb |-> less, ret |-> Some(rb.items[idx.val]),
                   fault |-> NoFault, indices |-> {idx.val}, pre |-> idx.pre]
    ELSE [rb |-> rb, ret |-> None, fault |-> NoFault, indices |-> {},
          pre |-> TRUE]

\* RingBuffer::shift(item).
RingBuffer_shift(rb, item) ==
    LET popped == IF RingBuffer_len(rb) = CAPACITY THEN RingBuffer_pop_back(rb)
                  ELSE [rb |-> rb, ret |-> None, fault |-> NoFault,
                        indices |-> {}, pre |-> TRUE]
        pushed == RingBuffer_push_front(popped.rb, item)
    IN  IF popped.fault # NoFault THEN popped
        ELSE [rb |-> pushed.rb, ret |-> popped.ret, fault |-> pushed.fault,
              indices |-> popped.indices \cup pushed.indices,
              pre |-> popped.pre /\ pushed.pre]

\* RingBuffer::front().
RingBuffer_front(rb) ==
    IF 0 < rb.num_items
    THEN LET idx == wrapping_sub(CAPACITY, rb.front_idx, 1)
         IN  IF idx.fault # NoFault
             THEN [rb |-> rb, ret |-> None, fault |-> idx.fault,
                   indices |-> {}, pre |-> idx.pre]
             ELSE IF idx.val \notin DOMAIN rb.items
             THEN [rb |-> rb, ret |-> None, fault |-> OutOfBounds,
                   indices |-> {idx.val}, pre |-> idx.pre]
             ELSE [rb |-> rb, ret |-> Some(rb.items[idx.val]),
                   fault |-> NoFault, indices |-> {idx.val}, pre |-> idx.pre]
    ELSE [rb |-> rb, ret |-> None, fault |-> NoFault, indices |-> {},
          pre |-> TRUE]

\* Iter::next(), repeated until it returns None: `out` collects the items
\* yielded so far, cursor_idx and num_items_left are the iterator's fields.
RECURSIVE Iter_next_until_none(_, _, _, _, _)
Iter_next_until_none(items, cursor_idx, num_items_left, out, indices) ==
    IF num_items_left = 0
    THEN [ret |-> out, fault |-> NoFault, indices |-> indices]
    ELSE LET next == wrapping_add(CAPACITY, cursor_idx, 1)
         IN  IF next.fault # NoFault
             THEN [ret |-> out, fault |-> next.fault, indices |-> indices]
             ELSE IF cursor_idx \notin DOMAIN items
             THEN [ret |-> out, fault |-> OutOfBounds,
                   indices |-> indices \cup {cursor_idx}]
             ELSE Iter_next_until_none(items, next.val, num_items_left - 1,
                                       Append(out, items[cursor_idx]),
                                       indices \cup {cursor_idx})

\* Mutant of iter: the cursor starts at front_idx, the next free slot, and
\* not num_items before it.
RingBuffer_iter_from_front(rb) ==
    LET walked == Iter_next_until_none(rb.items, rb.front_idx, rb.num_items,
                                       << >>, {})
    IN  [rb |-> rb, ret |-> walked.ret, fault |-> walked.fault,
         indices |-> walked.indices, pre |-> TRUE]

\* RingBuffer::iter(), collected: the items it yields, in order.
RingBuffer_iter(rb) ==
    LET cursor == wrapping_sub(CAPACITY, rb.front_idx, rb.num_items)
        walked == Iter_next_until_none(rb.items, cursor.val, rb.num_items,
                                       << >>, {})
    IN  IF cursor.fault # NoFault
        THEN [rb |-> rb, ret |-> << >>, fault |-> cursor.fault,
              indices |-> {}, pre |-> cursor.pre]
        ELSE [rb |-> rb, ret |-> walked.ret, fault |-> walked.fault,
              indices |-> walked.indices, pre |-> cursor.pre]

\* ------------------------------------------------------------ the system

\* The initial RingBuffer of the runs that make no RingBuffer call.
RingInitIdle ==
    /\ CAPACITY = 0
    /\ rb_items = RingBuffer_new(Zero).items
    /\ rb_front_idx = RingBuffer_new(Zero).front_idx
    /\ rb_num_items = RingBuffer_new(Zero).num_items
    /\ rb_fault = NoFault
    /\ rb_ret = [op |-> "new", val |-> None]
    /\ fifo = << >>

Init ==
    /\ WINDOW_SIZE \in 0 .. MaxWindow
    /\ overflow_checks \in BOOLEAN
    /\ divisor_max = Modulus - 1
    /\ ss_samples = SingleSum_new.samples
    /\ ss_sum = SingleSum_new.sum
    /\ ss_panicked = FALSE
    /\ ns_samples = NoSum_new.samples
    /\ ns_zero = NoSum_new.zero
    /\ st_samples = SumTree_MA_new.samples
    /\ st_sum_tree = SumTree_MA_new.sum_tree
    /\ st_panicked = FALSE
    /\ average_panicked = {}
    /\ recent = << >>
    /\ num_added = 0
    /\ RingInitIdle

config == << WINDOW_SIZE, overflow_checks, divisor_max >>

\* No call has panicked: the program is still running.
Running == ~ss_panicked /\ ~st_panicked /\ average_panicked = {}

\* add_sample(new_sample) on the three instances.
add_sample(new_sample) ==
    LET ss == SingleSum_add_sample(ss_samples, ss_sum, new_sample)
        st == SumTree_add_sample(st_samples, st_sum_tree, new_sample)
    IN  /\ Running
        /\ num_added < MaxAdds
        /\ ss_samples' = ss.samples
        /\ ss_sum' = ss.sum
        /\ ss_panicked' = ss.panic
        /\ ns_samples' = NoSum_add_sample(ns_samples, new_sample)
        /\ st_samples' = st.samples
        /\ st_sum_tree' = st.sum_tree
        /\ st_panicked' = st.panic
        /\ recent' = SubSeq(<< new_sample >> \o recent, 1,
                            Min(Len(recent) + 1, MaxWindow))
        /\ num_added' = num_added + 1
        /\ UNCHANGED << config, ns_zero, average_panicked, rb_vars >>

AddSample == \E new_sample \in Samples : add_sample(new_sample)

\* get_samples() on the Single-Sum instance (a &mut self method).
SingleSumGetSamples ==
    /\ Running
    /\ ss_samples' = SingleSum_get_samples(ss_samples).samples
    /\ UNCHANGED << config, ss_sum, ss_panicked, ns_samples, ns_zero,
                    st_samples, st_sum_tree, st_panicked, average_panicked,
                    recent, num_added, rb_vars >>

\* get_samples() on the No-Sum instance (a &mut self method).
NoSumGetSamples ==
    /\ Running
    /\ ns_samples' = NoSum_get_samples(ns_samples).samples
    /\ UNCHANGED << config, ss_samples, ss_sum, ss_panicked, ns_zero,
                    st_samples, st_sum_tree, st_panicked, average_panicked,
                    recent, num_added, rb_vars >>

\* get_samples() on the Sum-Tree instance: it only borrows the leaf slice.
SumTreeGetSamples ==
    /\ Running
    /\ UNCHANGED vars

\* get_average_sample() on the three instances (a &self method): it assigns
\* nothing, and a call that panics ends the program.
GetAverage ==
    /\ Running
    /\ average_panicked' =
           {s \in {"SingleSum"} : SingleSum_get_average(ss_samples, ss_sum).panic}
           \cup {s \in {"NoSum"} : NoSum_get_average(ns_samples, ns_zero).panic}
           \cup {s \in {"SumTree"} :
                     SumTree_get_average(st_samples, st_sum_tree).panic}
    /\ UNCHANGED << config, ss_samples, ss_sum, ss_panicked, ns_samples,
                    ns_zero, st_samples, st_sum_tree, st_panicked, recent,
                    num_added, rb_vars >>

\* The &self methods get_most_recent_sample, get_num_samples and
\* get_sample_window_size assign nothing.

GetMostRecentSample ==
    /\ Running
    /\ UNCHANGED vars

GetNumSamples ==
    /\ Running
    /\ UNCHANGED vars

GetSampleWindowSize ==
    /\ Running
    /\ UNCHANGED vars

Read ==
    \/ SingleSumGetSamples
    \/ NoSumGetSamples
    \/ SumTreeGetSamples
    \/ GetAverage
    \/ GetMostRecentSample
    \/ GetNumSamples
    \/ GetSampleWindowSize

Next ==
    \/ AddSample
    \/ Read

Spec == Init /\ [][Next]_vars

\* ------------------------------------------------- what a caller observes

RECURSIVE SeqSum(_)
SeqSum(seq) == IF seq = << >> THEN 0 ELSE Head(seq) + SeqSum(Tail(seq))

\* The number of elements of seq equal to x.
Count(seq, x) == Cardinality({i \in DOMAIN seq : seq[i] = x})

\* seq1 and seq2 hold the same values the same number of times.
SameMultiset(seq1, seq2) ==
    /\ Len(seq1) = Len(seq2)
    /\ \A i \in DOMAIN seq1 : Count(seq1, seq1[i]) = Count(seq2, seq1[i])

\* The window the stream defines: the last min(num_added, WINDOW_SIZE)
\* samples added, newest first.
ExpectedNumSamples == Min(num_added, WINDOW_SIZE)

ExpectedWindow == SubSeq(recent, 1, ExpectedNumSamples)

\* The results of the read operations in the current state.
ss_num_samples == SingleSum_get_num_samples(ss_samples)

ns_num_samples == NoSum_get_num_samples(ns_samples)

st_num_samples == SumTree_get_num_samples(st_samples)

ss_average == SingleSum_get_average(ss_samples, ss_sum)

ns_average == NoSum_get_average(ns_samples, ns_zero)

st_average == SumTree_get_average(st_samples, st_sum_tree)

ss_most_recent == SingleSum_get_most_recent_sample(ss_samples)

ns_most_recent == NoSum_get_most_recent_sample(ns_samples)

st_most_recent == SumTree_get_most_recent_sample(st_samples, st_sum_tree)

ss_slice == SingleSum_get_samples(ss_samples).slice

ns_slice == NoSum_get_samples(ns_samples).slice

st_slice == SumTree_get_samples(st_sum_tree)

\* ----------------------------------------------------------------- C1

\* C1: in every state get_num_samples() <= get_sample_window_size() for the
\* three strategies, and an instance whose add_sample calls all returned
\* holds min(number of calls, WINDOW_SIZE) samples.
C1_NumSamplesIsMin ==
    /\ ss_num_samples <= get_sample_window_size
    /\ ns_num_samples <= get_sample_window_size
    /\ st_num_samples <= get_sample_window_size
    /\ ~ss_panicked => ss_num_samples = Min(num_added, WINDOW_SIZE)
    /\ ns_num_samples = Min(num_added, WINDOW_SIZE)
    /\ ~st_panicked => st_num_samples = Min(num_added, WINDOW_SIZE)

\* C1 witness: a window of the largest size that has dropped two samples.
C1_Witness ==
    /\ Running
    /\ WINDOW_SIZE = MaxWindow
    /\ num_added >= WINDOW_SIZE + 2
    /\ ss_num_samples = WINDOW_SIZE
    /\ ns_num_samples = WINDOW_SIZE
    /\ st_num_samples = WINDOW_SIZE

\* ----------------------------------------------------------------- C2

\* The truncating quotient of the samples in the window the stream defines.
ExpectedAverage == Ok(SeqSum(ExpectedWindow) \div ExpectedNumSamples)

\* The sum of the window fits the sample type.
WindowSumFits == SeqSum(ExpectedWindow) < Modulus

\* C2: with WINDOW_SIZE >= 1, at least one sample added and a window sum
\* that fits the sample type, get_average() of every instance whose calls
\* all returned is the truncating quotient (sum of the last
\* min(k, WINDOW_SIZE) samples) / min(k, WINDOW_SIZE).
C2_AverageIsTruncatedMean ==
    (WINDOW_SIZE >= 1 /\ num_added >= 1 /\ WindowSumFits) =>
        /\ ~ss_panicked => ss_average = ExpectedAverage
        /\ ns_average = ExpectedAverage
        /\ ~st_panicked => st_average = ExpectedAverage

\* C2 witness: window size 3 after the samples ..., 3, 4, 10 (five added):
\* the three averages are 17 / 3 = 5.
C2_Witness ==
    /\ Running
    /\ WINDOW_SIZE = 3
    /\ num_added = 5
    /\ recent = << 10, 4, 3 >>
    /\ ss_average = Ok(5)
    /\ ns_average = Ok(5)
    /\ st_average = Ok(5)

\* ----------------------------------------------------------------- C3

\* What a caller gets from an instance: the result of the read, or a panic
\* when one of its add_sample calls panicked.
ss_outcome ==
    IF ss_panicked THEN << "panic" >>
    ELSE << ss_average, ss_num_samples, ss_most_recent >>

ns_outcome == << ns_average, ns_num_samples, ns_most_recent >>

st_outcome ==
    IF st_panicked \/ st_most_recent.panic THEN << "panic" >>
    ELSE << st_average, st_num_samples, st_most_recent.val >>

\* A read of the No-Sum instance that panics counts as a panic as a whole.
ns_outcome_or_panic == IF ns_average.panic THEN << "panic" >> ELSE ns_outcome

\* C3: the three instances, fed the same samples, return equal
\* get_average(), get_num_samples() and get_most_recent_sample() after
\* every insertion.
C3_StrategiesAgree ==
    /\ ss_outcome = ns_outcome_or_panic
    /\ st_outcome = ns_outcome_or_panic

\* The three instances agree whenever no add_sample call has panicked.
StrategiesAgreeWhileRunning == Running => C3_StrategiesAgree

\* ----------------------------------------------------------------- C4

\* C4: with WINDOW_SIZE >= 1 and more than WINDOW_SIZE samples added,
\* get_samples() of every instance whose calls all returned holds, as a
\* multiset, exactly the last WINDOW_SIZE samples added.
C4_EvictionKeepsLastN ==
    (WINDOW_SIZE >= 1 /\ num_added >= WINDOW_SIZE + 1) =>
        /\ ~ss_panicked => SameMultiset(ss_slice, ExpectedWindow)
        /\ SameMultiset(ns_slice, ExpectedWindow)
        /\ ~st_panicked => SameMultiset(st_slice, ExpectedWindow)

\* C4 witness: a window of 3 that has dropped two samples, holds three
\* different values and whose Single-Sum ring wraps around the buffer end.
C4_Witness ==
    /\ Running
    /\ WINDOW_SIZE = 3
    /\ num_added = 5
    /\ Cardinality({recent[i] : i \in 1 .. 3}) = 3
    /\ ~is_contiguous(ss_samples)
    /\ SameMultiset(ss_slice, recent)
    /\ SameMultiset(st_slice, recent)

\* ----------------------------------------------------------------- C5

\* C5: in every state get_samples() of every strategy returns exactly the
\* live samples: as many values as get_num_samples(), and the values of the
\* window.
C5_SamplesAreLive ==
    /\ ~ss_panicked =>
           Len(ss_slice) = ss_num_samples /\ SameMultiset(ss_slice, ExpectedWindow)
    /\ Len(ns_slice) = ns_num_samples /\ SameMultiset(ns_slice, ExpectedWindow)
    /\ ~st_panicked =>
           Len(st_slice) = st_num_samples /\ SameMultiset(st_slice, ExpectedWindow)

\* ----------------------------------------------------------------- C6

\* C6: get_samples() of the Single-Sum and No-Sum instances lists the
\* window newest first, so its first element is get_most_recent_sample().
C6_NewestFirst ==
    /\ ~ss_panicked =>
           /\ ss_slice = ExpectedWindow
           /\ ss_num_samples >= 1 => Some(ss_slice[1]) = ss_most_recent
    /\ ns_slice = ExpectedWindow
    /\ ns_num_samples >= 1 => Some(ns_slice[1]) = ns_most_recent

\* C6 witness: a full window of 3 different values whose No-Sum ring wraps
\* around the buffer end.
C6_Witness ==
    /\ Running
    /\ WINDOW_SIZE = 3
    /\ num_added >= 5
    /\ Cardinality({recent[i] : i \in 1 .. 3}) = 3
    /\ ~is_contiguous(ns_samples)
    /\ ns_slice = recent
    /\ ss_slice = recent

\* ----------------------------------------------------------------- C7

\* C7: with WINDOW_SIZE >= 1, get_most_recent_sample() of every instance
\* whose calls all returned is none before the first add_sample and the
\* value passed to the last add_sample afterwards.
C7_MostRecentIsLastAdded ==
    WINDOW_SIZE >= 1 =>
        LET last == IF num_added = 0 THEN None ELSE Some(recent[1])
        IN  /\ ~ss_panicked => ss_most_recent = last
            /\ ns_most_recent = last
            /\ ~st_panicked => st_most_recent = [panic |-> FALSE, val |-> last]

\* C7 witness: a full window that has dropped a sample and whose newest
\* sample differs from the one before it.
C7_Witness ==
    /\ Running
    /\ WINDOW_SIZE >= 2
    /\ num_added >= WINDOW_SIZE + 1
    /\ recent[1] # recent[2]
    /\ ss_most_recent = Some(recent[1])
    /\ st_most_recent = [panic |-> FALSE, val |-> Some(recent[1])]

\* ----------------------------------------------------------------- C8

\* C8: whenever the window of an instance is empty, its get_average()
\* returns the zero value and does not panic.
C8_EmptyAverageIsZero ==
    /\ (~ss_panicked /\ ss_num_samples = 0) => ss_average = Ok(Zero)
    /\ ns_num_samples = 0 => ns_average = Ok(Zero)
    /\ (~st_panicked /\ st_num_samples = 0) => st_average = Ok(Zero)

\* C8 witness: instances of window size 0, still empty after an add_sample
\* call, whose get_average() is the zero value.
C8_Witness ==
    /\ WINDOW_SIZE = 0
    /\ num_added = 1
    /\ ss_num_samples = 0 /\ ss_average = Ok(Zero)
    /\ ns_num_samples = 0 /\ ns_average = Ok(Zero)
    /\ st_num_samples = 0 /\ st_average = Ok(Zero)

\* ----------------------------------------------------------------- C9

\* The fields of the three instances.
InstanceState ==
    << ss_samples, ss_sum, ss_panicked, ns_samples, ns_zero,
       st_samples, st_sum_tree, st_panicked >>

\* With window size 0 the three instances are empty and read as zero.
ZeroWindowReads ==
    /\ Running
    /\ ss_num_samples = 0 /\ ns_num_samples = 0 /\ st_num_samples = 0
    /\ ss_most_recent = None /\ ns_most_recent = None
    /\ st_most_recent = [panic |-> FALSE, val |-> None]
    /\ ss_average = Ok(Zero) /\ ns_average = Ok(Zero) /\ st_average = Ok(Zero)

\* C9: with window size 0, add_sample changes no field of any instance and
\* does not panic, and in every state get_num_samples() is 0,
\* get_most_recent_sample() is none and get_average() is the zero value.
C9_ZeroWindowNoOp ==
    /\ [](WINDOW_SIZE = 0 => ZeroWindowReads)
    /\ [][(WINDOW_SIZE = 0 /\ num_added' = num_added + 1) =>
              InstanceState' = InstanceState]_vars

\* C9 witness: instances of window size 0 after two add_sample calls.
C9_Witness ==
    /\ WINDOW_SIZE = 0
    /\ num_added >= 2
    /\ ZeroWindowReads

\* ---------------------------------------------------------------- C10

\* The logical state of the three instances: the window contents in order,
\* the running total, and the tree with its position queue.
LogicalState ==
    << VecDeque_iter(ss_samples), ss_sum, VecDeque_iter(ns_samples), ns_zero,
       VecDeque_iter(st_samples), st_sum_tree >>

\* The results of all read operations.
Observations ==
    << ss_average, ns_average, st_average,
       ss_most_recent, ns_most_recent, st_most_recent,
       ss_num_samples, ns_num_samples, st_num_samples,
       get_sample_window_size, ss_slice, ns_slice, st_slice >>

\* C10: a read operation (get_samples included) leaves the logical state of
\* the three instances and the result of every read operation as they were.
C10_ReadsKeepLogicalState ==
    [][Read => (LogicalState' = LogicalState /\ Observations' = Observations)]_vars

\* C10 witness: a full Single-Sum window that has dropped a sample and that
\* get_samples() has rotated back to the start of the buffer.
C10_Witness ==
    /\ Running
    /\ WINDOW_SIZE = 3
    /\ num_added = 4
    /\ ss_samples.head = 0
    /\ VecDeque_iter(ss_samples) = recent
    /\ Cardinality({recent[i] : i \in 1 .. 3}) = 3

\* ------------------------------------------------- C11: a narrow Divisor

\* The instances are built with a Divisor type whose largest count
\* divisor_max is below the window size.
InitNarrow ==
    /\ WINDOW_SIZE \in 1 .. MaxWindow
    /\ overflow_checks \in BOOLEAN
    /\ divisor_max \in 0 .. WINDOW_SIZE - 1
    /\ ss_samples = SingleSum_new.samples
    /\ ss_sum = SingleSum_new.sum
    /\ ss_panicked = FALSE
    /\ ns_samples = NoSum_new.samples
    /\ ns_zero = NoSum_new.zero
    /\ st_samples = SumTree_MA_new.samples
    /\ st_sum_tree = SumTree_MA_new.sum_tree
    /\ st_panicked = FALSE
    /\ average_panicked = {}
    /\ recent = << >>
    /\ num_added = 0
    /\ RingInitIdle

SpecNarrow == InitNarrow /\ [][Next]_vars

\* get_average() of every instance fails exactly when the sample count is
\* above divisor_max; in particular it returns for count 0.
AveragePanicsIffCountAboveMax ==
    (~ss_panicked /\ ~st_panicked) =>
        /\ ss_average.panic <=> (ss_num_samples > divisor_max)
        /\ ns_average.panic <=> (ns_num_samples > divisor_max)
        /\ st_average.panic <=> (st_num_samples > divisor_max)
        /\ (ExpectedNumSamples = 0) =>
               (~ss_average.panic /\ ~ns_average.panic /\ ~st_average.panic)

\* A get_average() call that fails has failed on all three instances, with a
\* count above divisor_max, and has left the instances as they were.
FailedAverageKeepsState ==
    (average_panicked' # average_panicked) =>
        /\ average_panicked' = {"SingleSum", "NoSum", "SumTree"}
        /\ ExpectedNumSamples > divisor_max
        /\ InstanceState' = InstanceState

\* An add_sample call fails only on an arithmetic overflow in a build with
\* overflow checks, never on the sample count.
AddSampleFailsOnlyOnOverflow ==
    (num_added' # num_added) =>
        /\ ss_panicked' => (overflow_checks /\ AddOverflows(ss_sum, recent'[1]))
        /\ st_panicked' => (overflow_checks /\ ~WindowSumFits')
        /\ ns_num_samples' = ExpectedNumSamples'

\* C11: with a Divisor type that represents counts only up to
\* divisor_max < WINDOW_SIZE, get_average() panics if and only if the sample
\* count is greater than divisor_max (never for count 0, never by wrapping
\* the count); add_sample never fails for this reason, and the failed
\* get_average() leaves the instance state unchanged.
C11_NarrowDivisorPanics ==
    /\ []AveragePanicsIffCountAboveMax
    /\ [][FailedAverageKeepsState /\ AddSampleFailsOnlyOnOverflow]_vars

\* C11 witness: with WINDOW_SIZE 3 and divisor_max 1, four samples were added
\* (the last two at a count above divisor_max) and get_average() then failed
\* on every instance.
C11_Witness ==
    /\ WINDOW_SIZE = 3
    /\ divisor_max = 1
    /\ num_added = 4
    /\ ~ss_panicked /\ ~st_panicked
    /\ average_panicked = {"SingleSum", "NoSum", "SumTree"}

\* ------------------------------------------ C13: the Sum-Tree slot choice

\* The position queue of the Sum-Tree instance, front first.
st_queue == VecDeque_iter(st_samples)

\* The leaf that add_sample writes: the next unused slot while the window is
\* filling, the slot at the back of the queue once it is full.
ChosenSlot ==
    IF Len(st_queue) < WINDOW_SIZE THEN Len(st_queue)
    ELSE st_queue[Len(st_queue)]

\* The queue once a full window has given up its back element.
QueueAfterPop ==
    IF Len(st_queue) < WINDOW_SIZE THEN st_queue
    ELSE SubSeq(st_queue, 1, Len(st_queue) - 1)

SlotChoiceStep ==
    (num_added' # num_added /\ WINDOW_SIZE >= 1) =>
        IF st_panicked'
        THEN st_queue' = QueueAfterPop
        ELSE /\ st_queue' = << ChosenSlot >> \o QueueAfterPop
             /\ st_slice'[ChosenSlot + 1] = recent'[1]
             /\ Len(st_queue') =
                    IF Len(st_queue) < WINDOW_SIZE THEN Len(st_queue) + 1
                    ELSE Len(st_queue)

\* C13: with WINDOW_SIZE >= 1, Sum-Tree add_sample writes the new value to
\* the next unused slot (the current sample count) while fewer than
\* WINDOW_SIZE samples are held, and otherwise to the slot popped from the
\* back of the position queue; it then pushes that slot index to the front
\* of the queue, whose length grows by one when not full and is unchanged
\* when full.
C13_SlotChoice == [][SlotChoiceStep]_vars

\* C13 witness: a full window of three has reused slot 0 for the fourth
\* sample, slots 2 and 1 behind it.
C13_Witness ==
    /\ Running
    /\ WINDOW_SIZE = 3
    /\ num_added = 4
    /\ st_queue = << 0, 2, 1 >>

\* --------------------------------------- C14: slot indices stay in range

\* C14: every slot index that add_sample passes to update_leaf_node_sample
\* and that get_most_recent_sample passes to get_leaf_node_sum is below
\* WINDOW_SIZE: the queue holds only such indices, the next slot chosen is
\* one, no call reports an index out of range, and a panic of add_sample is
\* an arithmetic overflow, never an index violation.
C14_SlotIndexInRange ==
    /\ st_panicked => (overflow_checks /\ ~WindowSumFits)
    /\ (~st_panicked /\ WINDOW_SIZE >= 1) =>
           /\ \A i \in 1 .. Len(st_queue) : st_queue[i] \in 0 .. WINDOW_SIZE - 1
           /\ ChosenSlot \in 0 .. WINDOW_SIZE - 1
           /\ \A new_sample \in Samples :
                  ~update_leaf_node_sample(st_sum_tree, ChosenSlot,
                                           new_sample).out_of_range
           /\ ~st_most_recent.panic
           /\ \A i \in 1 .. Len(st_queue) :
                  ~get_leaf_node_sum(st_sum_tree, st_queue[i]).panic

\* C14 witness: a window of three after five samples; the front of the queue
\* is slot 1 and the next sample goes to slot 2, the highest index.
C14_Witness ==
    /\ Running
    /\ WINDOW_SIZE = 3
    /\ num_added = 5
    /\ st_queue[1] = 1
    /\ ChosenSlot = 2
    /\ st_most_recent = [panic |-> FALSE, val |-> Some(recent[1])]

\* ------------------------------------- C15: the position queue invariant

\* C15: the position queue of a Sum-Tree instance holds pairwise distinct
\* slot indices, exactly the set 0 .. len-1 with len = get_num_samples(), and
\* the leaf at the slot stored at queue position i (front first) holds the
\* value of the i-th most recently added sample.
C15_QueueIsPermutation ==
    ~st_panicked =>
        /\ Len(st_queue) = st_num_samples
        /\ \A i, j \in 1 .. Len(st_queue) :
               (st_queue[i] = st_queue[j]) => (i = j)
        /\ {st_queue[i] : i \in 1 .. Len(st_queue)} = 0 .. st_num_samples - 1
        /\ \A i \in 1 .. Len(st_queue) :
               st_slice[st_queue[i] + 1] = ExpectedWindow[i]

\* C15 witness: a window of three after the samples 0, 1, 3, 4, 10: the
\* queue is the permutation 1, 0, 2 and slots 0, 1, 2 hold 4, 10, 3.
C15_Witness ==
    /\ Running
    /\ WINDOW_SIZE = 3
    /\ num_added = 5
    /\ recent = << 10, 4, 3 >>
    /\ st_queue = << 1, 0, 2 >>
    /\ st_slice = << 4, 10, 3 >>

\* ------------------------------------------ C16: the sum-tree invariant

\* The internal nodes and the padding leaves of the Sum-Tree instance's tree.
InternalNodes == 1 .. st_sum_tree.offset - 1

PaddingLeaves ==
    {st_sum_tree.offset + i : i \in st_sum_tree.capacity .. st_sum_tree.offset - 1}

\* C16: after construction and after every completed
\* update_leaf_node_sample, every internal node of the tree holds the sum of
\* its two children (the sum of the sample type, and the exact sum whenever
\* the window sum fits the type), and the padding leaves hold zero.
C16_NodesAreChildSums ==
    ~st_panicked =>
        /\ DOMAIN st_sum_tree.nodes = 1 .. 2 * st_sum_tree.offset - 1
        /\ \A n \in InternalNodes :
               /\ st_sum_tree.nodes[n] =
                      WrappingAdd(st_sum_tree.nodes[2 * n],
                                  st_sum_tree.nodes[2 * n + 1])
               /\ WindowSumFits =>
                      st_sum_tree.nodes[n] =
                          st_sum_tree.nodes[2 * n] + st_sum_tree.nodes[2 * n + 1]
        /\ \A n \in PaddingLeaves : st_sum_tree.nodes[n] = Zero

\* C16 witness: a tree of three slots and one padding leaf after five
\* updates, with the two inner sums and the root different from zero.
C16_Witness ==
    /\ Running
    /\ WINDOW_SIZE = 3
    /\ num_added = 5
    /\ PaddingLeaves = {7}
    /\ st_sum_tree.nodes[2] = 14
    /\ st_sum_tree.nodes[3] = 3
    /\ st_sum_tree.nodes[1] = 17

\* -------------------------------------- C17: the root is the window sum

\* C17: in every reachable Sum-Tree state whose window sum fits the sample
\* type, get_root_sum() is the sum of the samples in the window and the sum
\* of all leaves, the leaf slots not yet assigned hold zero, and
\* get_average() is root / count, the window average, also before the
\* window has filled.
C17_RootIsWindowSum ==
    (~st_panicked /\ WindowSumFits) =>
        /\ get_root_sum(st_sum_tree) = SeqSum(ExpectedWindow)
        /\ get_root_sum(st_sum_tree) = SeqSum(st_slice)
        /\ \A slot \in st_num_samples .. WINDOW_SIZE - 1 :
               st_slice[slot + 1] = Zero
        /\ (st_num_samples >= 1) =>
               st_average = Ok(SeqSum(ExpectedWindow) \div st_num_samples)

\* C17 witness: a window of three holding the two samples 3 and 10: the
\* third leaf is zero, the root is 13 and the average is 13 / 2 = 6.
C17_Witness ==
    /\ Running
    /\ WINDOW_SIZE = 3
    /\ num_added = 2
    /\ st_slice = << 3, 10, 0 >>
    /\ get_root_sum(st_sum_tree) = 13
    /\ st_average = Ok(6)

\* ------------------------------------- C18: the frame of a leaf update

\* The nodes from `node` up to the root.
RECURSIVE PathToRoot(_)
PathToRoot(node) ==
    IF node <= ROOT_NODE_IDX THEN {ROOT_NODE_IDX}
    ELSE {node} \cup PathToRoot(node \div 2)

LeafUpdateFrame ==
    (num_added' # num_added /\ WINDOW_SIZE >= 1) =>
        LET leaf == st_sum_tree.offset + ChosenSlot
        IN  /\ \A n \in DOMAIN st_sum_tree.nodes \ PathToRoot(leaf) :
                   st_sum_tree'.nodes[n] = st_sum_tree.nodes[n]
            /\ DOMAIN st_sum_tree'.nodes = DOMAIN SumTree_MA_new.sum_tree.nodes
            /\ st_sum_tree'.capacity = SumTree_MA_new.sum_tree.capacity
            /\ st_sum_tree'.offset = SumTree_MA_new.sum_tree.offset
            /\ Len(st_slice') = Len(SumTree_get_samples(SumTree_MA_new.sum_tree))

\* C18: update_leaf_node_sample(slot, v), as add_sample calls it, changes
\* only the leaf at slot and the internal nodes on the path from that leaf
\* to the root; every other leaf and every internal node off the path keeps
\* its value, and the tree has the leaf slots and nodes it had after
\* construction.
C18_LeafUpdateFrame == [][LeafUpdateFrame]_vars

\* C18 witness: in a tree of three slots holding 4, 10 and 3, the update of
\* slot 2 left the leaves of slots 0 and 1 and their parent (node 2) alone.
C18_Witness ==
    /\ Running
    /\ WINDOW_SIZE = 3
    /\ num_added = 3
    /\ st_queue[1] = 2
    /\ st_slice = << 4, 10, 3 >>
    /\ st_sum_tree.nodes[2] = 14

\* ------------------------------------------ C19: slots are used in a cycle

\* The k-th add_sample call (k = num_added before the call) writes leaf slot
\* k mod WINDOW_SIZE, and a call that returns has stored the sample there.
CyclicSlotStep ==
    (num_added' # num_added /\ WINDOW_SIZE >= 1) =>
        /\ ChosenSlot = num_added % WINDOW_SIZE
        /\ ~st_panicked' =>
               /\ st_queue'[1] = num_added % WINDOW_SIZE
               /\ st_slice'[(num_added % WINDOW_SIZE) + 1] = recent'[1]

\* In the slice of get_samples(), slot j holds the most recent sample whose
\* insertion index is congruent to j modulo WINDOW_SIZE: the i-th most
\* recent sample has insertion index num_added - i.
SliceIsRotation ==
    (~st_panicked /\ WINDOW_SIZE >= 1) =>
        /\ Len(st_slice) = WINDOW_SIZE
        /\ \A i \in 1 .. ExpectedNumSamples :
               st_slice[((num_added - i) % WINDOW_SIZE) + 1] = recent[i]

\* C19: with WINDOW_SIZE >= 1 the k-th add_sample call (k from 0) always
\* writes leaf slot k mod WINDOW_SIZE, so the slots are reused in the cyclic
\* order 0, 1, ..., WINDOW_SIZE-1, 0, ...; in the leaf slice that
\* get_samples() returns, slot j holds the most recent sample whose
\* insertion index is congruent to j modulo WINDOW_SIZE, a rotation of the
\* insertion order and not newest-first.
C19_SlotsCycle ==
    /\ []SliceIsRotation
    /\ [][CyclicSlotStep]_vars

\* C19 witness: a window of three after the four samples 0, 1, 3, 4: call 3
\* went to slot 0, and the slice 4, 1, 3 is neither newest-first (4, 3, 1)
\* nor oldest-first (1, 3, 4).
C19_Witness ==
    /\ Running
    /\ WINDOW_SIZE = 3
    /\ num_added = 4
    /\ recent = << 4, 3, 1 >>
    /\ st_slice = << 4, 1, 3 >>
    /\ st_slice # ExpectedWindow

\* ------------------------------------ C20: the Single-Sum running total

\* The samples of the Single-Sum instance's buffer, newest first.
ss_queue == VecDeque_iter(ss_samples)

\* The cached total is the initial zero plus the sum of the buffer: in the
\* arithmetic of the sample type always, and exactly when the sum fits.
RunningTotalIsBufferSum ==
    ~ss_panicked =>
        /\ ss_sum = (Zero + SeqSum(ss_queue)) % Modulus
        /\ (SeqSum(ss_queue) < Modulus) => (ss_sum = Zero + SeqSum(ss_queue))

\* An add_sample call that returns has added the new sample to the total
\* and, at capacity, subtracted the oldest sample, the one it evicts.
RunningTotalStep ==
    (num_added' # num_added /\ WINDOW_SIZE >= 1 /\ ~ss_panicked') =>
        LET full    == Len(ss_queue) = WINDOW_SIZE
            evicted == IF full THEN ss_queue[Len(ss_queue)] ELSE Zero
            kept    == IF full THEN SubSeq(ss_queue, 1, Len(ss_queue) - 1)
                       ELSE ss_queue
        IN  /\ ss_queue' = << recent'[1] >> \o kept
            /\ ss_sum' = WrappingSub(WrappingAdd(ss_sum, recent'[1]), evicted)
            /\ ~AddOverflows(ss_sum, recent'[1]) =>
                   (ss_sum' = ss_sum + recent'[1] - evicted)

\* C20: in every reachable Single-Sum state without overflow the cached
\* running total equals the initial zero plus the sum of the samples in the
\* buffer; add_sample adds the new value and, at capacity, subtracts exactly
\* the oldest sample, which it then evicts.
C20_RunningTotal ==
    /\ []RunningTotalIsBufferSum
    /\ [][RunningTotalStep]_vars

\* C20 witness: a window of two that held 4 and 3 (total 7) took the sample
\* 10 and evicted 3: the buffer is 10, 4 and the total 14.
C20_Witness ==
    /\ Running
    /\ WINDOW_SIZE = 2
    /\ num_added = 3
    /\ recent = << 10, 4, 3 >>
    /\ ss_queue = << 10, 4 >>
    /\ ss_sum = 14

\* ------------------------------- C21: Single-Sum intermediate overflow

\* An add_sample call on a Single-Sum instance after which the window sum
\* fits the sample type has not overflowed at `sum += new_sample`, and a
\* Single-Sum panic comes with a window sum that does not fit.
NoIntermediateOverflowStep ==
    (num_added' # num_added /\ WINDOW_SIZE >= 1) =>
        /\ WindowSumFits' => ~AddOverflows(ss_sum, recent'[1])
        /\ ss_panicked' => ~WindowSumFits'

\* C21: with w-bit unsigned samples, whenever the sum of the samples in the
\* window after an add_sample call fits in w bits, no intermediate value of
\* the Single-Sum running total computed during the call exceeds 2^w - 1, so
\* Single-Sum overflows only where No-Sum and Sum-Tree overflow too.
C21_NoIntermediateOverflow == [][NoIntermediateOverflowStep]_vars

\* ------------------------------------------------- the RingBuffer system

\* The RingBuffer in the current state.
rb == [items |-> rb_items, front_idx |-> rb_front_idx, num_items |-> rb_num_items]

\* A newly constructed RingBuffer of any capacity up to MaxCapacity, in
\* either build profile; the moving averages are constructed and left alone.
RingInit ==
    /\ WINDOW_SIZE = 0
    /\ overflow_checks \in BOOLEAN
    /\ divisor_max = Modulus - 1
    /\ ss_samples = SingleSum_new.samples
    /\ ss_sum = SingleSum_new.sum
    /\ ss_panicked = FALSE
    /\ ns_samples = NoSum_new.samples
    /\ ns_zero = NoSum_new.zero
    /\ st_samples = SumTree_MA_new.samples
    /\ st_sum_tree = SumTree_MA_new.sum_tree
    /\ st_panicked = FALSE
    /\ average_panicked = {}
    /\ recent = << >>
    /\ num_added = 0
    /\ CAPACITY \in 0 .. MaxCapacity
    /\ rb_items = RingBuffer_new(Zero).items
    /\ rb_front_idx = RingBuffer_new(Zero).front_idx
    /\ rb_num_items = RingBuffer_new(Zero).num_items
    /\ rb_fault = NoFault
    /\ rb_ret = [op |-> "new", val |-> None]
    /\ fifo = << >>

\* No RingBuffer call has panicked.
RingRunning == rb_fault = NoFault

\* The fields, the fault and the returned value after the call `op` with
\* outcome `out`.
RingCall(op, out) ==
    /\ RingRunning
    /\ rb_items' = out.rb.items
    /\ rb_front_idx' = out.rb.front_idx
    /\ rb_num_items' = out.rb.num_items
    /\ rb_fault' = out.fault
    /\ rb_ret' = [op |-> op, val |-> out.ret]
    /\ UNCHANGED << ma_vars, CAPACITY >>

\* The bounded FIFO after an item is appended: the oldest item is dropped
\* when CAPACITY items are held, and nothing is held with CAPACITY 0.
FifoAppend(seq, item) ==
    IF CAPACITY = 0 THEN << >>
    ELSE IF Len(seq) = CAPACITY THEN Append(Tail(seq), item)
    ELSE Append(seq, item)

\* The bounded FIFO after its oldest item is removed.
FifoRemove(seq) == IF seq = << >> THEN seq ELSE Tail(seq)

RbPushFront ==
    \E item \in RingItems :
        /\ RingCall("push_front", RingBuffer_push_front(rb, item))
        /\ fifo' = FifoAppend(fifo, item)

RbShift ==
    \E item \in RingItems :
        /\ RingCall("shift", RingBuffer_shift(rb, item))
        /\ fifo' = FifoAppend(fifo, item)

RbPopBack ==
    /\ RingCall("pop_back", RingBuffer_pop_back(rb))
    /\ fifo' = FifoRemove(fifo)

RbFront ==
    /\ RingCall("front", RingBuffer_front(rb))
    /\ UNCHANGED fifo

RbLen ==
    /\ RingCall("len", [rb |-> rb, ret |-> RingBuffer_len(rb), fault |-> NoFault])
    /\ UNCHANGED fifo

RbIter ==
    /\ RingCall("iter", RingBuffer_iter(rb))
    /\ UNCHANGED fifo

RingNext ==
    \/ RbPushFront
    \/ RbShift
    \/ RbPopBack
    \/ RbFront
    \/ RbLen
    \/ RbIter

RingSpec == RingInit /\ [][RingNext]_vars

\* --------------------------------------- C22: RingBuffer is a bounded FIFO

\* C22: a RingBuffer with CAPACITY >= 1 behaves as a bounded FIFO: after any
\* interleaving of push_front, shift and pop_back no call has panicked,
\* iter() yields exactly len() items, oldest first, equal to the sequence in
\* which push_front and shift append the item (dropping the oldest of
\* CAPACITY items) and pop_back removes the oldest, and front() is the last
\* item of that sequence, or none when it is empty.
C22_RingIsBoundedFifo ==
    (CAPACITY >= 1) =>
        /\ RingRunning
        /\ RingBuffer_iter(rb).fault = NoFault
        /\ RingBuffer_iter(rb).ret = fifo
        /\ Len(RingBuffer_iter(rb).ret) = RingBuffer_len(rb)
        /\ RingBuffer_front(rb).fault = NoFault
        /\ RingBuffer_front(rb).ret =
               IF fifo = << >> THEN None ELSE Some(fifo[Len(fifo)])

\* C22 witness: a buffer of capacity 3 that has wrapped and then lost its
\* oldest item to pop_back: it holds 3, 1 in slots 2 and 0, and iter() has
\* returned them oldest first.
C22_Witness ==
    /\ CAPACITY = 3
    /\ rb_front_idx = 1
    /\ rb_num_items = 2
    /\ rb_items = [i \in 0 .. 2 |-> << 1, 2, 3 >>[i + 1]]
    /\ fifo = << 3, 1 >>
    /\ rb_ret.op = "iter"
    /\ rb_ret.val = << 3, 1 >>

\* ----------------------------------------------------- C23: shift(item)

\* A shift call has returned the oldest item when the buffer held CAPACITY
\* items and None otherwise, has made its item the newest element, and has
\* left min(previous len + 1, CAPACITY) items.
ShiftStep ==
    (rb_ret'.op = "shift") =>
        /\ rb_fault' = NoFault
        /\ rb_ret'.val = IF rb_num_items = CAPACITY THEN Some(fifo[1]) ELSE None
        /\ fifo' # << >>
        /\ RingBuffer_front(rb').ret = Some(fifo'[Len(fifo')])
        /\ RingBuffer_len(rb') = Min(rb_num_items + 1, CAPACITY)

\* C23: RingBuffer::shift(item) returns the oldest item if and only if the
\* buffer held exactly CAPACITY items before the call, and none otherwise;
\* after the call the item is the newest element and len() equals
\* min(previous len + 1, CAPACITY).
C23_ShiftReturnsOldest == [][ShiftStep]_vars

\* The same statement for the capacities of at least one.
ShiftReturnsOldestFromCapacityOne == [][(CAPACITY >= 1) => ShiftStep]_vars

\* -------------------------------------------------------- C24: pop_back

\* A pop_back call on an empty buffer has returned None and changed no
\* field; on a non-empty buffer it has returned the oldest item, taken one
\* off len(), and left front_idx, the array and the order of the remaining
\* items as they were.
PopBackStep ==
    (rb_ret'.op = "pop_back") =>
        /\ rb_fault' = NoFault
        /\ rb_front_idx' = rb_front_idx
        /\ rb_items' = rb_items
        /\ IF rb_num_items = 0
           THEN /\ rb_ret'.val = None
                /\ rb_num_items' = rb_num_items
           ELSE /\ rb_ret'.val = Some(fifo[1])
                /\ RingBuffer_len(rb') = RingBuffer_len(rb) - 1
                /\ RingBuffer_iter(rb').ret = Tail(RingBuffer_iter(rb).ret)

\* C24: RingBuffer::pop_back on an empty buffer returns none and leaves
\* items, front_idx and num_items unchanged; on a non-empty buffer it returns
\* the oldest item, decreases len() by exactly one and leaves front_idx and
\* the remaining items and their order unchanged.
C24_PopBack == [][PopBackStep]_vars

\* C24 witness: pop_back has taken the oldest item, 2, from a full buffer of
\* capacity 3 whose items 2, 3, 1 wrap around the end of the array; 3 and 1
\* remain and front_idx is still 1.
C24_Witness ==
    /\ CAPACITY = 3
    /\ rb_ret.op = "pop_back"
    /\ rb_ret.val = Some(2)
    /\ rb_front_idx = 1
    /\ rb_num_items = 2
    /\ fifo = << 3, 1 >>

\* ------------------------------------------ C25: RingBuffer index bounds

\* The outcomes of the calls that can be made in the current state.
RingCallOutcomes ==
    {RingBuffer_push_front(rb, item) : item \in RingItems}
    \cup {RingBuffer_shift(rb, item) : item \in RingItems}
    \cup {RingBuffer_pop_back(rb), RingBuffer_front(rb), RingBuffer_iter(rb)}

\* C25: for a RingBuffer with CAPACITY >= 1, every reachable state has
\* 0 <= num_items <= CAPACITY and 0 <= front_idx < CAPACITY, every array
\* index that push_front, pop_back, front, iter and Iter::next compute is
\* below CAPACITY, and the precondition rhs <= MAX_VAL of wrapping_sub holds
\* at every call.
C25_RingIndicesInBounds ==
    (CAPACITY >= 1) =>
        /\ rb_num_items \in 0 .. CAPACITY
        /\ rb_front_idx \in 0 .. CAPACITY - 1
        /\ DOMAIN rb_items = 0 .. CAPACITY - 1
        /\ wrapping_sub(CAPACITY, rb_front_idx, rb_num_items).val
               \in 0 .. CAPACITY - 1
        /\ \A out \in RingCallOutcomes :
               /\ out.fault = NoFault
               /\ out.pre
               /\ out.indices \subseteq 0 .. CAPACITY - 1

\* C25 witness: a full buffer of capacity 3 with front_idx back at 0, where
\* wrapping_sub borrows: front() has read index 2 and pop_back would read
\* index 0.
C25_Witness ==
    /\ CAPACITY = 3
    /\ rb_front_idx = 0
    /\ rb_num_items = 3
    /\ rb_ret.op = "front"
    /\ RingBuffer_front(rb).indices = {2}
    /\ RingBuffer_pop_back(rb).indices = {0}
    /\ RingBuffer_iter(rb).indices = {0, 1, 2}

\* ------------------------------------------- C26: a RingBuffer of capacity 0

\* C26: for a RingBuffer with CAPACITY = 0, push_front and shift complete
\* without a fault (no out-of-bounds index, no modulo by zero) and leave
\* len() == 0.
C26_ZeroCapacityNoFault ==
    (CAPACITY = 0) =>
        /\ rb_fault = NoFault
        /\ RingBuffer_len(rb) = 0
        /\ \A item \in RingItems :
               /\ RingBuffer_push_front(rb, item).fault = NoFault
               /\ RingBuffer_shift(rb, item).fault = NoFault

====
